---------------------------- MODULE Spec2Model ----------------------------
(***************************************************************************)
(* multidict: an ordered multi-valued map (src/src/lib.rs).                *)
(*                                                                         *)
(* A MultiDict owns one Vec<MultiElement>.  The model keeps the Vec of     *)
(* every MultiDict object the caller holds: the map built by               *)
(* MultiDict::new() and the MultiDict handed back by getall().  Every      *)
(* method is an operator computed the way the code computes it (the same   *)
(* scans, the same Vec::push / Vec::remove / Vec::insert calls with the    *)
(* code's 0-based indices) and an action that applies it to an object.     *)
(***************************************************************************)
EXTENDS Integers, Sequences, FiniteSets, TLC

\* Largest number of entries a MultiDict is grown to.
MaxLen == 3

\* Largest capacity passed to new_capacity.
MaxHint == 2

\* Largest number of add calls counted.
MaxAdds == 4

\* add is called on the MultiDict returned by getall while it is shorter than this
\* (getall itself returns up to MaxLen entries).
MaxCopyLen == 1

\* The strings used as keys and as values.  "a" is both a key and a value, so
\* a comparison made against the wrong field is visible.
KeySet == {"a", "b"}
ValueSet == {"a", "c"}

VARIABLES
    elements,   \* elements[o]: the Vec<MultiElement> of MultiDict object o
    results,    \* the object getall last returned to the caller, or "none"
    last,       \* the last call: method, receiver, arguments, return value
    prev,       \* the receiver's Vec before the last call
    added,      \* the entries passed to add on the map, while only add was called
    onlyAdds,   \* no popone or update has been called on the map since new()
    hinted,     \* a second map, built by new_capacity(hint), given the same calls
    upd,        \* the update call in progress on the map: its locals and position
    run,        \* the popone calls made in a row with one key: start and returns
    count       \* the add calls and the successful popone calls made on the map

\* The state the calls on the map and on getall's result read and write.
mapVars == <<elements, results, last, prev, added, onlyAdds>>

vars == <<elements, results, last, prev, added, onlyAdds, hinted, upd, run, count>>

-----------------------------------------------------------------------------
(* MultiElement and Result *)

MultiElement(k, v) == [key |-> k, value |-> v]

Ok(x) == [ok |-> TRUE, val |-> x]

Err(msg) == [ok |-> FALSE, val |-> msg]

NoMatchingKey == "No matching key found"

\* The return value of a method returning ().
Unit == "()"

-----------------------------------------------------------------------------
(* Vec operations used by the code; idx is 0-based as in Rust *)

VecPush(v, e) == Append(v, e)

\* Vec::remove(idx): the removed element and the Vec with the tail shifted left.
VecRemove(v, idx) ==
    [removed |-> v[idx + 1],
     vec     |-> SubSeq(v, 1, idx) \o SubSeq(v, idx + 2, Len(v))]

\* Variant of VecInsert: e goes to the end, as with Vec::push.
VecInsertEnd(v, idx, e) == Append(v, e)

\* Vec::insert(idx, e): e at position idx, the tail shifted right.
VecInsert(v, idx, e) ==
    SubSeq(v, 1, idx) \o <<e>> \o SubSeq(v, idx + 1, Len(v))

-----------------------------------------------------------------------------
(* MultiDict methods, as functions of the receiver's Vec *)

new == <<>>

\* Variant of new_capacity: a Vec of `capacity` blank entries instead of an
\* empty Vec with room for them.
new_capacity_filled(capacity) ==
    [elements |-> [i \in 1..capacity |-> MultiElement("", "")],
     capacity |-> capacity]

\* Vec::with_capacity(*capacity): no entries, room for `capacity` of them.
new_capacity(capacity) == [elements |-> <<>>, capacity |-> capacity]

\* The capacities a Vec of length n and capacity cap may have after a push:
\* the same while there is room, otherwise a larger one (at least n + 1; the
\* allocator may give more, here up to twice the old capacity).
PushCapacity(n, cap) ==
    IF n < cap THEN {cap}
    ELSE {n + 1, IF 2 * cap > n + 1 THEN 2 * cap ELSE n + 1}

len(elems) == Len(elems)

is_empty(elems) == elems = <<>>

\* Variant of add: overwrites the entries of a key already present.
add_merge(elems, new_item) ==
    IF \E i \in 1..Len(elems) : elems[i].key = new_item.key
    THEN [i \in 1..Len(elems) |->
            IF elems[i].key = new_item.key THEN new_item ELSE elems[i]]
    ELSE VecPush(elems, new_item)

add(elems, new_item) == VecPush(elems, new_item)

RECURSIVE get_scan(_, _, _)
get_scan(elems, key, i) ==
    IF i > Len(elems) THEN Err(NoMatchingKey)
    ELSE IF elems[i].key = key THEN Ok(elems[i])
    ELSE get_scan(elems, key, i + 1)

\* Variant of get: scans from the end, so returns the last match.
RECURSIVE get_last_scan(_, _, _)
get_last_scan(elems, key, i) ==
    IF i < 1 THEN Err(NoMatchingKey)
    ELSE IF elems[i].key = key THEN Ok(elems[i])
    ELSE get_last_scan(elems, key, i - 1)

get_last(elems, key) == get_last_scan(elems, key, Len(elems))

get(elems, key) == get_scan(elems, key, 1)

\* popone: the return value and the receiver's Vec afterwards.
RECURSIVE popone_scan(_, _, _)
popone_scan(elems, key, idx) ==
    IF idx >= Len(elems) THEN [res |-> Err(NoMatchingKey), elements |-> elems]
    ELSE IF elems[idx + 1].key = key
         THEN LET r == VecRemove(elems, idx)
              IN  [res |-> Ok(r.removed), elements |-> r.vec]
         ELSE popone_scan(elems, key, idx + 1)

\* Variant of popone: removes the last match.
RECURSIVE popone_last_scan(_, _, _)
popone_last_scan(elems, key, idx) ==
    IF idx < 0 THEN [res |-> Err(NoMatchingKey), elements |-> elems]
    ELSE IF elems[idx + 1].key = key
         THEN LET r == VecRemove(elems, idx)
              IN  [res |-> Ok(r.removed), elements |-> r.vec]
         ELSE popone_last_scan(elems, key, idx - 1)

popone_last(elems, key) == popone_last_scan(elems, key, Len(elems) - 1)

\* Variant of popone: also matches the key against item.value.
RECURSIVE popone_value_scan(_, _, _)
popone_value_scan(elems, key, idx) ==
    IF idx >= Len(elems) THEN [res |-> Err(NoMatchingKey), elements |-> elems]
    ELSE IF elems[idx + 1].key = key \/ elems[idx + 1].value = key
         THEN LET r == VecRemove(elems, idx)
              IN  [res |-> Ok(r.removed), elements |-> r.vec]
         ELSE popone_value_scan(elems, key, idx + 1)

popone_value(elems, key) == popone_value_scan(elems, key, 0)

\* Variant of popone: returns the first match and removes every match.
popone_all(elems, key) ==
    LET HasOtherKey(e) == e.key # key
    IN  [res      |-> popone_scan(elems, key, 0).res,
         elements |-> SelectSeq(elems, HasOtherKey)]

popone(elems, key) == popone_scan(elems, key, 0)

\* getall: the loop pushing a clone of every matching item onto a new MultiDict.
RECURSIVE getall_loop(_, _, _, _)
getall_loop(elems, key, i, acc) ==
    IF i > Len(elems) THEN acc
    ELSE getall_loop(elems, key, i + 1,
                     IF elems[i].key = key
                     THEN add(acc, MultiElement(elems[i].key, elems[i].value))
                     ELSE acc)

\* Variant of getall: without the is_empty test on the result.
getall_unchecked(elems, key) == Ok(getall_loop(elems, key, 1, new))

getall(elems, key) ==
    LET res == getall_loop(elems, key, 1, new)
    IN  IF ~is_empty(res) THEN Ok(res) ELSE Err(NoMatchingKey)

\* Variant of contains: decides on the first entry alone.
contains_first(elems, key) == elems # <<>> /\ elems[1].key = key

RECURSIVE contains_scan(_, _, _)
contains_scan(elems, key, i) ==
    IF i > Len(elems) THEN FALSE
    ELSE IF elems[i].key = key THEN TRUE
    ELSE contains_scan(elems, key, i + 1)

contains(elems, key) == contains_scan(elems, key, 1)

RECURSIVE keys_loop(_, _, _)
keys_loop(elems, i, acc) ==
    IF i > Len(elems) THEN acc
    ELSE keys_loop(elems, i + 1, VecPush(acc, elems[i].key))

\* Variant of keys: lists each distinct key once.
RECURSIVE keys_dedup_loop(_, _, _)
keys_dedup_loop(elems, i, acc) ==
    IF i > Len(elems) THEN acc
    ELSE keys_dedup_loop(elems, i + 1,
                         IF \E j \in 1..Len(acc) : acc[j] = elems[i].key
                         THEN acc ELSE VecPush(acc, elems[i].key))

keys_dedup(elems) == keys_dedup_loop(elems, 1, <<>>)

keys(elems) == keys_loop(elems, 1, <<>>)

RECURSIVE values_loop(_, _, _)
values_loop(elems, i, acc) ==
    IF i > Len(elems) THEN acc
    ELSE values_loop(elems, i + 1, VecPush(acc, elems[i].value))

\* Variant of values: newest first.
RECURSIVE values_rev_loop(_, _, _)
values_rev_loop(elems, i, acc) ==
    IF i > Len(elems) THEN acc
    ELSE values_rev_loop(elems, i + 1, <<elems[i].value>> \o acc)

values_rev(elems) == values_rev_loop(elems, 1, <<>>)

values(elems) == values_loop(elems, 1, <<>>)

\* update, first loop: the indices of the entries whose key is the new item's.
RECURSIVE ids_for_replace(_, _, _, _)
ids_for_replace(elems, new_item_key, idx, acc) ==
    IF idx >= Len(elems) THEN acc
    ELSE ids_for_replace(elems, new_item_key, idx + 1,
                         IF elems[idx + 1].key = new_item_key
                         THEN VecPush(acc, idx) ELSE acc)

\* update, second loop: remove the entry at each index and insert the new item there.
RECURSIVE replace_loop(_, _, _)
replace_loop(elems, ids, new_item) ==
    IF ids = <<>> THEN elems
    ELSE replace_loop(VecInsert(VecRemove(elems, Head(ids)).vec, Head(ids),
                                MultiElement(new_item.key, new_item.value)),
                      Tail(ids), new_item)

\* Variant of update: replaces the first match only.
update_first(elems, new_item) ==
    LET ids == ids_for_replace(elems, new_item.key, 0, <<>>)
    IN  replace_loop(elems, IF ids = <<>> THEN ids ELSE <<Head(ids)>>, new_item)

\* Variant of update: appends the item when no entry matches.
update_upsert(elems, new_item) ==
    LET ids == ids_for_replace(elems, new_item.key, 0, <<>>)
    IN  IF ids = <<>> THEN VecPush(elems, new_item)
        ELSE replace_loop(elems, ids, new_item)

update(elems, new_item) ==
    replace_loop(elems, ids_for_replace(elems, new_item.key, 0, <<>>), new_item)

\* Display for MultiDict: format!(r#""{}":"{}""#, item.key, item.value)
format_item(item) == "\"" \o item.key \o "\":\"" \o item.value \o "\""

\* .map(|item| format!(..)).collect::<Vec<_>>()
RECURSIVE fmt_collect(_, _, _)
fmt_collect(elems, i, acc) ==
    IF i > Len(elems) THEN acc
    ELSE fmt_collect(elems, i + 1, VecPush(acc, format_item(elems[i])))

\* [String]::join(sep)
RECURSIVE join(_, _)
join(strs, sep) ==
    IF strs = <<>> THEN ""
    ELSE IF Len(strs) = 1 THEN strs[1]
    ELSE strs[1] \o sep \o join(Tail(strs), sep)

\* Variant of fmt: the items joined without the space after the comma.
fmt_tight(elems) ==
    "MultiDict < " \o join(fmt_collect(elems, 1, <<>>), ",") \o " >"

\* write!(f, "MultiDict < {} >", ...)
fmt(elems) ==
    "MultiDict < " \o join(fmt_collect(elems, 1, <<>>), ", ") \o " >"

-----------------------------------------------------------------------------
(* The caller's objects *)

\* Variant of results_object: the returned collection shares the map's Vec.
results_object_self == "m"

\* The object holding the entries of the MultiDict getall returns: the one
\* created by MultiDict::new() inside getall, distinct from the receiver.
results_object == "r"

\* The object behind a handle of the caller: "map" is the MultiDict built by
\* new(), "results" the MultiDict the last successful getall returned.
Obj(h) == IF h = "map" THEN "m" ELSE results

Bound(h) == IF h = "map" THEN MaxLen ELSE MaxCopyLen

Call(op, h, k, v, res) ==
    [op |-> op, target |-> h, key |-> k, value |-> v, res |-> res]

MapInit ==
    /\ elements = [m |-> new, r |-> <<>>]
    /\ results = "none"
    /\ last = Call("new", "map", "", "", Unit)
    /\ prev = <<>>
    /\ added = <<>>
    /\ onlyAdds = TRUE

\* The second map as new_capacity(n) returns it.
Hinted(n) ==
    [elements |-> new_capacity(n).elements,
     capacity |-> new_capacity(n).capacity,
     hint     |-> n,
     res      |-> Unit]

\* No update call in progress.
NoUpdate ==
    [pc |-> "idle", ids |-> <<>>, i |-> 0,
     new_item |-> MultiElement("", ""), start |-> <<>>]

\* No popone call made yet.
NoRun == [key |-> "", start |-> <<>>, popped |-> <<>>, failed |-> FALSE]

NoCalls == [adds |-> 0, pops |-> 0]

Init ==
    /\ MapInit
    /\ hinted = Hinted(0)
    /\ upd = NoUpdate
    /\ run = NoRun
    /\ count = NoCalls

\* h.add(MultiElement { key: k, value: v })
Add(h, k, v) ==
    /\ Obj(h) # "none"
    /\ Len(elements[Obj(h)]) < Bound(h)
    /\ elements' = [elements EXCEPT ![Obj(h)] = add(@, MultiElement(k, v))]
    /\ last' = Call("add", h, k, v, Unit)
    /\ prev' = elements[Obj(h)]
    /\ added' = IF h = "map" /\ onlyAdds
                THEN Append(added, MultiElement(k, v)) ELSE added
    /\ UNCHANGED <<results, onlyAdds>>

\* h.popone(k)
PopOne(h, k) ==
    /\ Obj(h) # "none"
    /\ LET r == popone(elements[Obj(h)], k)
       IN  /\ elements' = [elements EXCEPT ![Obj(h)] = r.elements]
           /\ last' = Call("popone", h, k, "", r.res)
    /\ prev' = elements[Obj(h)]
    /\ onlyAdds' = IF h = "map" THEN FALSE ELSE onlyAdds
    /\ added' = IF h = "map" THEN <<>> ELSE added
    /\ UNCHANGED results

\* h.update(MultiElement { key: k, value: v })
Update(h, k, v) ==
    /\ Obj(h) # "none"
    /\ elements' = [elements EXCEPT ![Obj(h)] = update(@, MultiElement(k, v))]
    /\ last' = Call("update", h, k, v, Unit)
    /\ prev' = elements[Obj(h)]
    /\ onlyAdds' = IF h = "map" THEN FALSE ELSE onlyAdds
    /\ added' = IF h = "map" THEN <<>> ELSE added
    /\ UNCHANGED results

\* A method taking &self: the receiver's Vec is not written.
Read(op, h, k, res) ==
    /\ last' = Call(op, h, k, "", res)
    /\ prev' = elements[Obj(h)]
    /\ UNCHANGED <<elements, results, added, onlyAdds>>

\* Variant of Get: takes the entry out of the map, as popone does.
GetTaking(k) ==
    /\ elements' = [elements EXCEPT !.m = popone(@, k).elements]
    /\ last' = Call("get", "map", k, "", popone(elements.m, k).res)
    /\ prev' = elements.m
    /\ UNCHANGED <<results, added, onlyAdds>>

\* map.get(k)
Get(k) == Read("get", "map", k, get(elements.m, k))

\* map.contains(k)
Contains(k) == Read("contains", "map", k, contains(elements.m, k))

\* map.len()
LenCall == Read("len", "map", "", len(elements.m))

\* map.is_empty()
IsEmpty == Read("is_empty", "map", "", is_empty(elements.m))

\* map.keys()
Keys == Read("keys", "map", "", keys(elements.m))

\* map.values()
Values == Read("values", "map", "", values(elements.m))

\* format!("{}", map)
Fmt == Read("fmt", "map", "", fmt(elements.m))

\* results = map.getall(k): on Ok the caller holds the returned MultiDict.
GetAll(k) ==
    /\ LET r == getall(elements.m, k)
       IN  /\ last' = Call("getall", "map", k, "", r)
           /\ IF r.ok
              THEN /\ elements' = [elements EXCEPT !.r = r.val]
                   /\ results' = results_object
              ELSE UNCHANGED <<elements, results>>
    /\ prev' = elements.m
    /\ UNCHANGED <<added, onlyAdds>>

\* The variables of the other specifications, which the calls below leave alone.
aux == <<hinted, upd, run, count>>

\* The calls on the map.
Next ==
    \/ \E k \in KeySet, v \in ValueSet : Add("map", k, v) /\ UNCHANGED aux
    \/ \E k \in KeySet : PopOne("map", k) /\ UNCHANGED aux
    \/ \E k \in KeySet, v \in ValueSet : Update("map", k, v) /\ UNCHANGED aux
    \/ \E k \in KeySet : Get(k) /\ UNCHANGED aux
    \/ \E k \in KeySet : GetAll(k) /\ UNCHANGED aux
    \/ \E k \in KeySet : Contains(k) /\ UNCHANGED aux
    \/ LenCall /\ UNCHANGED aux
    \/ IsEmpty /\ UNCHANGED aux
    \/ Keys /\ UNCHANGED aux
    \/ Values /\ UNCHANGED aux
    \/ Fmt /\ UNCHANGED aux

Spec == Init /\ [][Next]_vars

\* The caller writing the map and the MultiDict a getall on it returned.
NextWithCopy ==
    \/ \E k \in KeySet, v \in ValueSet : Add("map", k, v) /\ UNCHANGED aux
    \/ \E k \in KeySet : PopOne("map", k) /\ UNCHANGED aux
    \/ \E k \in KeySet, v \in ValueSet : Update("map", k, v) /\ UNCHANGED aux
    \/ \E k \in KeySet : GetAll(k) /\ UNCHANGED aux
    \/ \E k \in KeySet, v \in ValueSet : Add("results", k, v) /\ UNCHANGED aux
    \/ \E k \in KeySet : PopOne("results", k) /\ UNCHANGED aux
    \/ \E k \in KeySet, v \in ValueSet : Update("results", k, v) /\ UNCHANGED aux

SpecWithCopy == Init /\ [][NextWithCopy]_vars

\* The same call on the map built by new() and on the one built by
\* new_capacity(hint); res is the value the second one returns.
OnHinted(elems, caps, res) ==
    \E c \in caps :
        /\ hinted' = [elements |-> elems, capacity |-> c,
                      hint |-> hinted.hint, res |-> res]
        /\ UNCHANGED <<upd, run, count>>

BothAdd(k, v) ==
    /\ Add("map", k, v)
    /\ OnHinted(add(hinted.elements, MultiElement(k, v)),
                PushCapacity(Len(hinted.elements), hinted.capacity), Unit)

BothPopOne(k) ==
    /\ PopOne("map", k)
    /\ OnHinted(popone(hinted.elements, k).elements, {hinted.capacity},
                popone(hinted.elements, k).res)

BothUpdate(k, v) ==
    /\ Update("map", k, v)
    /\ OnHinted(update(hinted.elements, MultiElement(k, v)),
                {hinted.capacity}, Unit)

BothGet(k) ==
    /\ Get(k)
    /\ OnHinted(hinted.elements, {hinted.capacity}, get(hinted.elements, k))

\* getall on both, the returned MultiDict compared and dropped.
BothGetAll(k) ==
    /\ Read("getall", "map", k, getall(elements.m, k))
    /\ OnHinted(hinted.elements, {hinted.capacity}, getall(hinted.elements, k))

BothContains(k) ==
    /\ Contains(k)
    /\ OnHinted(hinted.elements, {hinted.capacity},
                contains(hinted.elements, k))

BothLen ==
    /\ LenCall
    /\ OnHinted(hinted.elements, {hinted.capacity}, len(hinted.elements))

BothIsEmpty ==
    /\ IsEmpty
    /\ OnHinted(hinted.elements, {hinted.capacity}, is_empty(hinted.elements))

BothKeys ==
    /\ Keys
    /\ OnHinted(hinted.elements, {hinted.capacity}, keys(hinted.elements))

BothValues ==
    /\ Values
    /\ OnHinted(hinted.elements, {hinted.capacity}, values(hinted.elements))

BothFmt ==
    /\ Fmt
    /\ OnHinted(hinted.elements, {hinted.capacity}, fmt(hinted.elements))

InitCapacity ==
    /\ MapInit
    /\ \E n \in 0..MaxHint : hinted = Hinted(n)
    /\ upd = NoUpdate
    /\ run = NoRun
    /\ count = NoCalls

NextCapacity ==
    \/ \E k \in KeySet, v \in ValueSet : BothAdd(k, v)
    \/ \E k \in KeySet : BothPopOne(k)
    \/ \E k \in KeySet, v \in ValueSet : BothUpdate(k, v)
    \/ \E k \in KeySet : BothGet(k)
    \/ \E k \in KeySet : BothGetAll(k)
    \/ \E k \in KeySet : BothContains(k)
    \/ BothLen
    \/ BothIsEmpty
    \/ BothKeys
    \/ BothValues
    \/ BothFmt

SpecCapacity == InitCapacity /\ [][NextCapacity]_vars

-----------------------------------------------------------------------------
(* update, statement by statement *)

\* map.update(MultiElement { key: k, value: v }) is entered: the first loop
\* fills ids_for_replace from the entries as they are now.
UpdateCollect(k, v) ==
    /\ upd.pc = "idle"
    /\ upd' = [pc       |-> "loop",
               ids      |-> ids_for_replace(elements.m, k, 0, <<>>),
               i        |-> 0,
               new_item |-> MultiElement(k, v),
               start    |-> elements.m]
    /\ UNCHANGED <<mapVars, hinted, run, count>>

\* self.elements.remove(idx) for the next idx of ids_for_replace
UpdateRemove ==
    /\ upd.pc = "loop"
    /\ upd.i < Len(upd.ids)
    /\ elements' = [elements EXCEPT !.m = VecRemove(@, upd.ids[upd.i + 1]).vec]
    /\ upd' = [upd EXCEPT !.pc = "insert"]
    /\ UNCHANGED <<results, last, prev, added, onlyAdds, hinted, run, count>>

\* self.elements.insert(idx, new_item.clone()) for the same idx
UpdateInsert ==
    /\ upd.pc = "insert"
    /\ elements' = [elements EXCEPT !.m =
                       VecInsert(@, upd.ids[upd.i + 1],
                                 MultiElement(upd.new_item.key, upd.new_item.value))]
    /\ upd' = [upd EXCEPT !.pc = "loop", !.i = @ + 1]
    /\ UNCHANGED <<results, last, prev, added, onlyAdds, hinted, run, count>>

\* The second loop is over: update returns.
UpdateReturn ==
    /\ upd.pc = "loop"
    /\ upd.i = Len(upd.ids)
    /\ last' = Call("update", "map", upd.new_item.key, upd.new_item.value, Unit)
    /\ prev' = upd.start
    /\ onlyAdds' = FALSE
    /\ added' = <<>>
    /\ upd' = NoUpdate
    /\ UNCHANGED <<elements, results, hinted, run, count>>

\* add calls between update calls, and update run one statement at a time.
NextUpdateSteps ==
    \/ \E k \in KeySet, v \in ValueSet :
          upd.pc = "idle" /\ Add("map", k, v) /\ UNCHANGED aux
    \/ \E k \in KeySet, v \in ValueSet : UpdateCollect(k, v)
    \/ UpdateRemove
    \/ UpdateInsert
    \/ UpdateReturn

SpecUpdateSteps == Init /\ [][NextUpdateSteps]_vars

-----------------------------------------------------------------------------
(* popone called in a row *)

\* map.popone(k); the run goes on when the call before was map.popone(k) too,
\* and starts here otherwise.
RunPopOne(k) ==
    /\ PopOne("map", k)
    /\ LET r == popone(elements.m, k)
           got == IF r.res.ok THEN <<r.res.val>> ELSE <<>>
       IN  run' = IF last.op = "popone" /\ last.target = "map" /\ last.key = k
                  THEN [run EXCEPT !.popped = @ \o got, !.failed = ~r.res.ok]
                  ELSE [key |-> k, start |-> elements.m,
                        popped |-> got, failed |-> ~r.res.ok]
    /\ UNCHANGED <<hinted, upd, count>>

\* Any other call ends the run.
NextPopRuns ==
    \/ \E k \in KeySet : RunPopOne(k)
    \/ \E k \in KeySet, v \in ValueSet :
          Add("map", k, v) /\ run' = NoRun /\ UNCHANGED <<hinted, upd, count>>
    \/ \E k \in KeySet, v \in ValueSet :
          Update("map", k, v) /\ run' = NoRun /\ UNCHANGED <<hinted, upd, count>>

SpecPopRuns == Init /\ [][NextPopRuns]_vars

-----------------------------------------------------------------------------
(* add and popone calls counted *)

CountAdd(k, v) ==
    /\ count.adds < MaxAdds
    /\ Add("map", k, v)
    /\ count' = [count EXCEPT !.adds = @ + 1]
    /\ UNCHANGED <<hinted, upd, run>>

CountPopOne(k) ==
    /\ PopOne("map", k)
    /\ count' = [count EXCEPT
                    !.pops = IF popone(elements.m, k).res.ok THEN @ + 1 ELSE @]
    /\ UNCHANGED <<hinted, upd, run>>

NextCount ==
    \/ \E k \in KeySet, v \in ValueSet : CountAdd(k, v)
    \/ \E k \in KeySet : CountPopOne(k)
    \/ \E k \in KeySet, v \in ValueSet : Update("map", k, v) /\ UNCHANGED aux
    \/ \E k \in KeySet : Get(k) /\ UNCHANGED aux
    \/ \E k \in KeySet : Contains(k) /\ UNCHANGED aux
    \/ LenCall /\ UNCHANGED aux
    \/ IsEmpty /\ UNCHANGED aux
    \/ Keys /\ UNCHANGED aux
    \/ Values /\ UNCHANGED aux

SpecCount == Init /\ [][NextCount]_vars

-----------------------------------------------------------------------------
(* Properties *)

\* The receiver's Vec after the last call, and the entry the call was given.
cur == elements[Obj(last.target)]

item == MultiElement(last.key, last.value)

\* The positions (1-based) of the entries of s whose key is k.
MatchIdx(s, k) == {i \in 1..Len(s) : s[i].key = k}

IsFirst(i, S) == i \in S /\ \A j \in S : i <= j

\* s with position i deleted.
Without(s, i) == [j \in 1..(Len(s) - 1) |-> IF j < i THEN s[j] ELSE s[j + 1]]

\* The entries of s with key k, in order.
Keyed(s, k) == LET HasKey(e) == e.key = k IN SelectSeq(s, HasKey)

Mutators == {"add", "popone", "update"}

\* C1: add returns normally and leaves exactly the previous entries followed
\* by the new entry: one entry more, every earlier entry at its position with
\* its key and value, the new entry last, also when its key is present already.
C1_AddAppends ==
    last.op = "add" =>
        /\ last.res = Unit
        /\ Len(cur) = Len(prev) + 1
        /\ \A i \in 1..Len(prev) : cur[i] = prev[i]
        /\ cur[Len(cur)] = item

C1_Witness ==
    /\ last.op = "add"
    /\ \E i \in 1..Len(prev) : prev[i].key = last.key /\ prev[i].value # last.value

\* C2: get(k) returns the entry at the smallest index whose key is k, and
\* fails with the key-not-found error exactly when no entry has key k.
C2_GetFirst ==
    last.op = "get" =>
        LET M == MatchIdx(prev, last.key)
        IN  /\ last.res.ok <=> M # {}
            /\ ~last.res.ok => last.res.val = NoMatchingKey
            /\ last.res.ok => \E i \in M : IsFirst(i, M) /\ last.res.val = prev[i]

C2_Witness ==
    /\ last.op = "get"
    /\ last.res.ok
    /\ \E i \in MatchIdx(prev, last.key) : prev[i].value # last.res.val.value

\* C3: when some entry has key k, popone(k) returns the entry at the smallest
\* index whose key is k and leaves the previous sequence with only that index
\* deleted: one entry fewer, later entries keyed k still there, all other
\* entries unchanged and in their order.
C3_PoponeFirst ==
    (last.op = "popone" /\ MatchIdx(prev, last.key) # {}) =>
        LET M == MatchIdx(prev, last.key)
        IN  /\ last.res.ok
            /\ \E i \in M : /\ IsFirst(i, M)
                            /\ last.res.val = prev[i]
                            /\ cur = Without(prev, i)
            /\ Len(cur) = Len(prev) - 1
            /\ Cardinality(MatchIdx(cur, last.key)) = Cardinality(M) - 1
            /\ \A k \in KeySet \ {last.key} : Keyed(cur, k) = Keyed(prev, k)

C3_Witness ==
    /\ last.op = "popone"
    /\ last.res.ok
    /\ Cardinality(MatchIdx(prev, last.key)) >= 2
    /\ prev[1].key # last.key
    /\ \E i \in MatchIdx(prev, last.key) : prev[i].value # last.res.val.value

\* C4: when no entry has key k, popone(k) returns the key-not-found error and
\* the map is as before: same entries, same len(), keys() and values().
C4_PoponeMissing ==
    (last.op = "popone" /\ MatchIdx(prev, last.key) = {}) =>
        /\ ~last.res.ok
        /\ last.res.val = NoMatchingKey
        /\ cur = prev
        /\ len(cur) = len(prev)
        /\ keys(cur) = keys(prev)
        /\ values(cur) = values(prev)

C4_Witness ==
    /\ last.op = "popone"
    /\ ~last.res.ok
    /\ Len(prev) >= 2
    /\ \E i \in 1..Len(prev) : prev[i].value = last.key

\* C5: update(k, v) puts (k, v) at the index of every entry whose key is k and
\* leaves every other entry as it was: same length, same keys(), nothing
\* appended or moved, every entry keyed k has value v afterwards.
C5_UpdateInPlace ==
    last.op = "update" =>
        /\ Len(cur) = Len(prev)
        /\ keys(cur) = keys(prev)
        /\ \A i \in 1..Len(prev) :
              cur[i] = IF prev[i].key = last.key THEN item ELSE prev[i]
        /\ \A i \in MatchIdx(cur, last.key) : cur[i].value = last.value

C5_Witness ==
    /\ last.op = "update"
    /\ Cardinality(MatchIdx(prev, last.key)) >= 2
    /\ \A i \in MatchIdx(prev, last.key) : prev[i].value # last.value
    /\ \E i \in 1..Len(prev) : prev[i].key # last.key

\* C6: when no entry has key k, update(k, v) returns normally and the map is
\* as before; (k, v) is not added.
C6_UpdateMissing ==
    (last.op = "update" /\ MatchIdx(prev, last.key) = {}) =>
        /\ last.res = Unit
        /\ cur = prev
        /\ Len(cur) = Len(prev)
        /\ \A i \in 1..Len(cur) : cur[i] # item

C6_Witness ==
    /\ last.op = "update"
    /\ MatchIdx(prev, last.key) = {}
    /\ Len(prev) >= 2

\* C7: getall(k) succeeds exactly when some entry has key k, and then returns
\* the entries keyed k in their order in the map, as many as the map has,
\* never an empty collection; otherwise it returns the key-not-found error.
C7_GetallSubsequence ==
    last.op = "getall" =>
        LET n == Cardinality(MatchIdx(prev, last.key))
        IN  /\ last.res.ok <=> n > 0
            /\ ~last.res.ok => last.res.val = NoMatchingKey
            /\ last.res.ok =>
                  /\ last.res.val = Keyed(prev, last.key)
                  /\ Len(last.res.val) = n
                  /\ last.res.val # <<>>
                  /\ results # "none"
                  /\ elements[results] = last.res.val

C7_Witness ==
    /\ last.op = "getall"
    /\ last.res.ok
    /\ Len(last.res.val) >= 2
    /\ last.res.val[1] # last.res.val[2]
    /\ \E i \in 1..Len(prev) :
          /\ prev[i].key # last.key
          /\ \E j \in MatchIdx(prev, last.key) : j < i
          /\ \E j \in MatchIdx(prev, last.key) : j > i

\* C8: add, popone and update on the collection getall returned leave the
\* map's entries, len(), keys() and values() as they were, and add, popone and
\* update on the map leave the returned collection as it was.
C8_GetallIndependent ==
    [][/\ (last'.target = "results" /\ last'.op \in Mutators) =>
              /\ elements'.m = elements.m
              /\ len(elements'.m) = len(elements.m)
              /\ keys(elements'.m) = keys(elements.m)
              /\ values(elements'.m) = values(elements.m)
       /\ (last'.target = "map" /\ last'.op \in Mutators /\ results # "none") =>
              /\ results' = results
              /\ elements'[results'] = elements[results]
      ]_vars

C8_Witness ==
    /\ last.target = "results"
    /\ last.op \in Mutators
    /\ elements[results] # prev
    /\ Len(elements.m) >= 2
    /\ elements[results] # Keyed(elements.m, elements.m[1].key)
    /\ elements[results] # Keyed(elements.m, elements.m[2].key)

\* C9: in every state reached by add, popone and update calls, len() is the
\* length of keys() and of values(), and is_empty() holds exactly when len()
\* is 0.
C9_LenKeysValues ==
    /\ len(elements.m) = Len(keys(elements.m))
    /\ len(elements.m) = Len(values(elements.m))
    /\ is_empty(elements.m) <=> (len(elements.m) = 0)
    /\ last.op = "keys" => Len(last.res) = len(elements.m)
    /\ last.op = "values" => Len(last.res) = len(elements.m)
    /\ last.op = "len" => last.res = Len(elements.m)
    /\ last.op = "is_empty" => (last.res <=> Len(elements.m) = 0)

C9_Witness ==
    /\ last.op = "keys"
    /\ ~onlyAdds
    /\ Len(last.res) >= 2
    /\ last.res[1] = last.res[2]

\* C10: keys() and values() have one item per entry, the i-th being the key
\* and the value of the i-th entry; while only add has been called since
\* new(), they are the keys and the values passed to add, in call order.
C10_KeysValuesOrder ==
    LET e == elements.m
    IN  /\ Len(keys(e)) = Len(e)
        /\ Len(values(e)) = Len(e)
        /\ \A i \in 1..Len(e) : keys(e)[i] = e[i].key /\ values(e)[i] = e[i].value
        /\ onlyAdds =>
              /\ keys(e) = [i \in 1..Len(added) |-> added[i].key]
              /\ values(e) = [i \in 1..Len(added) |-> added[i].value]

C10_Witness ==
    /\ last.op = "values"
    /\ onlyAdds
    /\ Len(added) >= 2
    /\ \E i, j \in 1..Len(added) :
          i < j /\ added[i].key = added[j].key /\ added[i].value # added[j].value
    /\ last.res = [i \in 1..Len(added) |-> added[i].value]

\* C11: update(k, v) called again right after an update(k, v) that matched at
\* least one entry leaves the map as the first call left it.
C11_UpdateIdempotent ==
    [][(/\ last.op = "update"
        /\ MatchIdx(prev, last.key) # {}
        /\ last'.op = "update"
        /\ last'.target = last.target
        /\ last'.key = last.key
        /\ last'.value = last.value)
       => /\ elements' = elements
          /\ update(update(prev, item), item) = update(prev, item)]_vars

C11_Witness ==
    /\ last.op = "update"
    /\ Cardinality(MatchIdx(prev, last.key)) >= 2
    /\ cur # prev
    /\ \E i \in 1..Len(prev) : prev[i].key # last.key
    /\ update(cur, item) = cur

\* C12: with no entry keyed k in the map, add(k, v) followed at once by
\* popone(k) returns (k, v) and leaves the map as it was before the add.
C12_AddPoponeRoundTrip ==
    [][(/\ last.op = "add"
        /\ MatchIdx(prev, last.key) = {}
        /\ last'.op = "popone"
        /\ last'.target = last.target
        /\ last'.key = last.key)
       => /\ last'.res.ok
          /\ last'.res.val = MultiElement(last.key, last.value)
          /\ elements'[Obj(last.target)] = prev]_vars

C12_Witness ==
    /\ last.op = "popone"
    /\ last.res.ok
    /\ Len(prev) >= 2
    /\ MatchIdx(prev, last.key) = {Len(prev)}
    /\ \E i \in 1..Len(cur) : cur[i].value = last.key

\* C13: contains(k) holds exactly when some entry has key k; get, getall and
\* popone succeed when it holds and return the one error, key not found, when
\* it does not; add, update, len, is_empty, contains, keys and values return a
\* plain value, never an error.
C13_ErrorIffAbsent ==
    /\ \A k \in KeySet :
          LET e == elements.m
          IN  /\ contains(e, k) <=> MatchIdx(e, k) # {}
              /\ get(e, k).ok <=> contains(e, k)
              /\ getall(e, k).ok <=> contains(e, k)
              /\ popone(e, k).res.ok <=> contains(e, k)
              /\ ~contains(e, k) =>
                    /\ get(e, k) = Err(NoMatchingKey)
                    /\ getall(e, k) = Err(NoMatchingKey)
                    /\ popone(e, k).res = Err(NoMatchingKey)
    /\ last.op = "contains" => (last.res <=> MatchIdx(prev, last.key) # {})
    /\ last.op \in {"get", "getall", "popone"} =>
          /\ last.res.ok <=> contains(prev, last.key)
          /\ ~last.res.ok => last.res.val = NoMatchingKey
    /\ last.op \in {"add", "update"} => last.res = Unit
    /\ last.op \in {"is_empty", "contains"} => last.res \in BOOLEAN
    /\ last.op = "len" => last.res \in 0..Len(prev)
    /\ last.op \in {"keys", "values"} => Len(last.res) = Len(prev)

C13_Witness ==
    /\ last.op = "contains"
    /\ last.res
    /\ Len(prev) >= 2
    /\ prev[1].key # last.key
    /\ prev[1].value = last.key

ReadOps == {"get", "getall", "contains", "keys", "values", "len", "is_empty"}

\* C14: get, getall, contains, keys, values, len and is_empty leave the map's
\* entries as they were, on success and on failure; a get or getall that
\* fails leaves every object of the caller as it was.
C14_ReadsDoNotWrite ==
    [][/\ (last'.op \in ReadOps /\ last'.target = "map") =>
              elements'.m = elements.m
       /\ (last'.op \in {"get", "getall"} /\ ~last'.res.ok) =>
              elements' = elements /\ results' = results
      ]_vars

C14_Witness ==
    /\ last.op = "get"
    /\ ~last.res.ok
    /\ Len(elements.m) >= 2
    /\ elements.m = prev

\* The items of s up to the n-th, each as "key":"value", separated by ", ".
RECURSIVE Listed(_, _)
Listed(s, n) ==
    IF n = 0 THEN ""
    ELSE (IF n = 1 THEN "" ELSE Listed(s, n - 1) \o ", ")
         \o "\"" \o s[n].key \o "\":\"" \o s[n].value \o "\""

\* C15: the rendering is the type's name, " < ", one "key":"value" pair per
\* entry in insertion order with duplicates kept, separated by ", ", and " >".
C15_DisplayShape ==
    last.op = "fmt" =>
        /\ last.res = "MultiDict < " \o Listed(prev, Len(prev)) \o " >"
        /\ prev = <<MultiElement("a", "a"), MultiElement("a", "c")>> =>
              last.res = "MultiDict < \"a\":\"a\", \"a\":\"c\" >"
        /\ prev = <<MultiElement("b", "c")>> =>
              last.res = "MultiDict < \"b\":\"c\" >"
        /\ elements.m = prev

C15_Witness ==
    /\ last.op = "fmt"
    /\ Len(prev) >= 2
    /\ prev[1].key = prev[2].key
    /\ prev[1].value # prev[2].value

\* C16: the map built by new_capacity(n) starts with no entries, and after
\* the same calls it holds the same entries and has returned the same value as
\* the map built by new(), also once it holds more than n entries.
C16_CapacityHintOnly ==
    /\ hinted.elements = elements.m
    /\ hinted.res = last.res
    /\ last.op = "new" => (len(hinted.elements) = 0 /\ is_empty(hinted.elements))
    /\ len(hinted.elements) = len(elements.m)
    /\ keys(hinted.elements) = keys(elements.m)
    /\ values(hinted.elements) = values(elements.m)
    /\ hinted.capacity >= Len(hinted.elements)

C16_Witness ==
    /\ hinted.hint >= 1
    /\ Len(hinted.elements) > hinted.hint
    /\ last.op = "popone"
    /\ last.res.ok
    /\ Len(prev) > hinted.hint + 1

\* C17: the indices update replaces are those matching when it is entered, in
\* ascending order, and are not recomputed; before each remove-and-insert and
\* after it the length is the one at entry, every index still to be processed
\* holds its entry of the original key, every processed index holds the new
\* item, and every entry with another key is where it was at entry.  On
\* return the map is what update computes from the entries at entry.
C17_UpdateStepwise ==
    /\ upd.pc # "idle" =>
          LET k == upd.new_item.key
              M == MatchIdx(upd.start, k)
          IN  /\ Len(upd.ids) = Cardinality(M)
              /\ \A j \in 1..Len(upd.ids) : upd.ids[j] + 1 \in M
              /\ \A j \in 1..(Len(upd.ids) - 1) : upd.ids[j] < upd.ids[j + 1]
              /\ upd.i \in 0..Len(upd.ids)
    /\ upd.pc = "loop" =>
          /\ Len(elements.m) = Len(upd.start)
          /\ \A j \in (upd.i + 1)..Len(upd.ids) :
                elements.m[upd.ids[j] + 1] = upd.start[upd.ids[j] + 1]
          /\ \A j \in 1..upd.i : elements.m[upd.ids[j] + 1] = upd.new_item
          /\ \A p \in 1..Len(upd.start) :
                upd.start[p].key # upd.new_item.key => elements.m[p] = upd.start[p]
    /\ upd.pc = "insert" =>
          /\ Len(elements.m) = Len(upd.start) - 1
          /\ \A k \in KeySet \ {upd.new_item.key} :
                Keyed(elements.m, k) = Keyed(upd.start, k)
    /\ (upd.pc = "idle" /\ last.op = "update") =>
          /\ elements.m = update(prev, item)
          /\ Len(elements.m) = Len(prev)

C17_Witness ==
    /\ upd.pc = "loop"
    /\ upd.i >= 1
    /\ upd.i < Len(upd.ids)
    /\ elements.m # upd.start
    /\ \E p \in 1..Len(upd.start) :
          /\ upd.start[p].key # upd.new_item.key
          /\ upd.ids[1] + 1 < p
          /\ p < upd.ids[2] + 1

\* The entries of s whose key is not k, in order.
NotKeyed(s, k) == LET HasOtherKey(e) == e.key # k IN SelectSeq(s, HasOtherKey)

\* C18: popone(k) called in a row on a map with n entries keyed k returns
\* those entries in insertion order, the sequence getall(k) gives for the map
\* at the start, fails only once all n are returned, and leaves the entries
\* of other keys as they were, in their order.
C18_PoponeDrains ==
    (last.op = "popone" /\ run.key = last.key) =>
        LET all == Keyed(run.start, run.key)
            n   == Cardinality(MatchIdx(run.start, run.key))
            g   == getall(run.start, run.key)
            m   == Len(run.popped)
        IN  /\ m <= n
            /\ Len(all) = n
            /\ run.popped = SubSeq(all, 1, m)
            /\ run.popped = SubSeq(IF g.ok THEN g.val ELSE <<>>, 1, m)
            /\ run.failed => m = n
            /\ run.failed = ~last.res.ok
            /\ Keyed(elements.m, run.key) = SubSeq(all, m + 1, n)
            /\ NotKeyed(elements.m, run.key) = NotKeyed(run.start, run.key)

C18_Witness ==
    /\ last.op = "popone"
    /\ run.failed
    /\ Len(run.popped) >= 2
    /\ run.popped[1] # run.popped[2]
    /\ Len(run.start) >= 3
    /\ run.start[2].key # run.key

\* C19: len() is the number of add calls less the number of popone calls
\* that succeeded and is never negative; add raises it by one, a popone that
\* succeeds lowers it by one, and update, a popone that fails and the reading
\* methods leave it as it was.
C19_LenIsAddsLessPops ==
    /\ len(elements.m) = count.adds - count.pops
    /\ count.pops <= count.adds
    /\ len(elements.m) >= 0
    /\ last.op = "add" => Len(cur) = Len(prev) + 1
    /\ (last.op = "popone" /\ last.res.ok) => Len(cur) = Len(prev) - 1
    /\ (last.op = "popone" /\ ~last.res.ok) => Len(cur) = Len(prev)
    /\ last.op \in {"update"} \cup ReadOps => Len(cur) = Len(prev)

C19_Witness ==
    /\ count.adds >= 3
    /\ count.pops >= 2
    /\ last.op = "update"
    /\ cur # prev
    /\ Len(elements.m) = 1

=============================================================================
